---------------------------- MODULE Spec2Model ----------------------------
(***************************************************************************)
(* Secret Obfuscation Engine of DataForge.                                 *)
(*                                                                         *)
(* Three document codecs are modelled from their sources:                  *)
(*   "app"    src/app/scripts/obfuscator_env.py  (line codec, app key,     *)
(*            file signature, unknown-token handling)                      *)
(*   "legacy" src/scripts/obfuscator_env.py      (line codec, no app key,  *)
(*            no signature)                                                *)
(*   "json"   src/scripts/obfuscator_json.py     (JSON object codec)       *)
(*                                                                         *)
(* Text is a sequence of one-character strings.  The cryptographic         *)
(* primitives are modelled symbolically (perfect cryptography): Scrypt and *)
(* HMAC-SHA-256 are injective constructors of their inputs, and an         *)
(* AES-CBC/PKCS7 ciphertext is an opaque character that decrypts only      *)
(* under the key it was produced with; under any other key the unpadding   *)
(* raises.  Everything else (strip, split, base64 tokens, dictionary       *)
(* semantics, file writes, exceptions) is computed as the code computes it.*)
(***************************************************************************)
EXTENDS Integers, Sequences, FiniteSets, TLC

\* ------------------------------------------------------------------ bounds
\* Largest number of pieces (lines / JSON members) of an input document.
MaxLines == 2
\* Largest length of a password or app key in the key-derivation checks.
MaxSecretLen == 2

\* Largest number of pieces an input path is put together from.
MaxPathPieces == 3
\* Largest number of tasks the REST endpoints start.
MaxTasks == 2

\* ------------------------------------------------------ program constants
\* AES block size in bytes, also the IV length: os.urandom(16), PKCS7(128).
BlockBytes == 16

\* --------------------------------------------------------- text utilities
NL == "\n"
CR == "\r"

\* The whitespace characters str.strip() removes (those of the alphabet).
Whitespace == {" ", "\n", "\t", "\r"}

\* open(path, 'r') and read(): what is on disk as the program sees it.  Text
\* mode reads with universal newlines: "\r\n" and a lone "\r" come out as
\* "\n".
RECURSIVE ReadText(_)
ReadText(stored) ==
    IF stored = <<>> THEN <<>>
    ELSE IF Head(stored) = CR
         THEN <<NL>> \o ReadText(IF Len(stored) >= 2 /\ stored[2] = NL
                                  THEN Tail(Tail(stored))
                                  ELSE Tail(stored))
         ELSE <<Head(stored)>> \o ReadText(Tail(stored))

RECURSIVE LStrip(_)
LStrip(s) ==
    IF s # <<>> /\ Head(s) \in Whitespace THEN LStrip(Tail(s)) ELSE s

RECURSIVE RStrip(_)
RStrip(s) ==
    IF s # <<>> /\ s[Len(s)] \in Whitespace
    THEN RStrip(SubSeq(s, 1, Len(s) - 1))
    ELSE s

\* str.strip()
Strip(s) == RStrip(LStrip(s))

\* '=' in line
HasEq(s) == \E i \in 1..Len(s) : s[i] = "="

FirstEq(s) == CHOOSE i \in 1..Len(s) : s[i] = "=" /\ \A j \in 1..(i - 1) : s[j] # "="

\* s.split('=', 1) for a string that contains '=': <<before, after>>.
SplitFirstEq(s) ==
    <<SubSeq(s, 1, FirstEq(s) - 1), SubSeq(s, FirstEq(s) + 1, Len(s))>>

\* file.readlines(): the lines of a text, each keeping its "\n"; a last
\* line without "\n" is a line too.
RECURSIVE ReadLinesFrom(_, _)
ReadLinesFrom(text, cur) ==
    IF text = <<>>
    THEN IF cur = <<>> THEN <<>> ELSE <<cur>>
    ELSE IF Head(text) = NL
         THEN <<Append(cur, NL)>> \o ReadLinesFrom(Tail(text), <<>>)
         ELSE ReadLinesFrom(Tail(text), Append(cur, Head(text)))

ReadLines(text) == ReadLinesFrom(text, <<>>)

RECURSIVE Concat(_)
Concat(ss) == IF ss = <<>> THEN <<>> ELSE Head(ss) \o Concat(Tail(ss))

\* ------------------------------------------------------------- base64 token
\* Code points of the characters used in names.
Ord(c) ==
    CASE c = "A" -> 65
      [] c = "B" -> 66
      [] c = " " -> 32
      [] c = "#" -> 35
      [] c = "1" -> 49
      [] c = "2" -> 50
      [] c = "=" -> 61
      [] OTHER -> 63

B64UrlAlphabet ==
    << "A","B","C","D","E","F","G","H","I","J","K","L","M","N","O","P",
       "Q","R","S","T","U","V","W","X","Y","Z","a","b","c","d","e","f",
       "g","h","i","j","k","l","m","n","o","p","q","r","s","t","u","v",
       "w","x","y","z","0","1","2","3","4","5","6","7","8","9","-","_" >>

\* Bit k (0-based, most significant first) of the byte string of `name`,
\* zero beyond its end.
Bit(name, k) ==
    IF k \div 8 < Len(name)
    THEN (Ord(name[(k \div 8) + 1]) \div (2 ^ (7 - (k % 8)))) % 2
    ELSE 0

Sextet(name, j) ==
    32 * Bit(name, 6 * j) + 16 * Bit(name, 6 * j + 1) + 8 * Bit(name, 6 * j + 2)
    + 4 * Bit(name, 6 * j + 3) + 2 * Bit(name, 6 * j + 4) + Bit(name, 6 * j + 5)

\* Mutant of ObfuscatedKey: the token cut to its first character, so that
\* names with the same first six bits share a token.
ObfuscatedKeyCut(name) ==
    [j \in 1..(IF name = <<>> THEN 0 ELSE 1) |-> B64UrlAlphabet[Sextet(name, j - 1) + 1]]

\* Mutant of ObfuscatedKey: the '=' padding of the base64 text is kept.
ObfuscatedKeyPadded(name) ==
    [j \in 1..((8 * Len(name) + 5) \div 6) |-> B64UrlAlphabet[Sextet(name, j - 1) + 1]]
    \o [i \in 1..((3 - (Len(name) % 3)) % 3) |-> "="]

\* base64.urlsafe_b64encode(key_name.encode()).decode().strip("="):
\* ceil(8n/6) alphabet characters, the '=' padding stripped.
ObfuscatedKey(name) ==
    [j \in 1..((8 * Len(name) + 5) \div 6) |-> B64UrlAlphabet[Sextet(name, j - 1) + 1]]


\* ------------------------------------------------------------ dictionaries
\* A Python dict / JSON object is a function on its key set.
EmptyDict == [t \in {} |-> <<>>]

\* d[k] = v
DictPut(d, k, v) == [t \in (DOMAIN d) \cup {k} |-> IF t = k THEN v ELSE d[t]]

\* del d[k]
DictDel(d, k) == [t \in (DOMAIN d) \ {k} |-> d[t]]

\* The iteration order of a dict: deterministic but arbitrary.
RECURSIVE KeyOrder(_)
KeyOrder(S) ==
    IF S = {} THEN <<>>
    ELSE LET k == CHOOSE x \in S : TRUE IN <<k>> \o KeyOrder(S \ {k})

\* ------------------------------------------------- symbolic cryptography
\* Scrypt(salt, n=2**14, r=8, p=1).derive(material): collision-free in
\* (material, salt).
Scrypt(material, s) == [secret |-> material, salt |-> s]

\* generate_key of the app line codec: the secret material is
\* f"{password}:{app_key}".
GenerateKey(password, app_key, s) == Scrypt(password \o <<":">> \o app_key, s)

\* generate_key of the legacy line codec and of the JSON codec: the secret
\* material is the password alone.
GenerateKeyNoApp(password, s) == Scrypt(password, s)

\* hmac.new(base_key, original_key_name.encode(), sha256).digest():
\* collision-free in (base_key, name).
DeriveValueSpecificKey(base_key, original_key_name) ==
    [base |-> base_key, name |-> original_key_name]

\* generate_file_signature: base64 of HMAC-SHA256(key, content).
GenerateFileSignature(content, key) == [k |-> key, c |-> content]

\* The character that stands for base64(iv + AES-CBC output) of the n-th
\* encryption; the fresh iv makes it differ from every earlier one.
Blob(n) == "ct" \o ToString(n)

\* Number of '=' characters base64.b64encode appends to iv + ciphertext of a
\* PKCS7-padded plaintext of the given length.
B64PadLen(ptLen) ==
    LET n == BlockBytes + BlockBytes * ((ptLen \div BlockBytes) + 1)
    IN  (3 - (n % 3)) % 3

\* The text encrypt_value returns for the n-th ciphertext.
CipherText(n, ptLen) == <<Blob(n)>> \o [i \in 1..B64PadLen(ptLen) |-> "="]

\* The ciphertext table after the AES encryption of `value` under
\* `cipher_key`: entry n records what ciphertext n decrypts to and under
\* which key.
Encrypted(table, value, cipher_key) ==
    Append(table, [key |-> cipher_key, pt |-> value])

\* Mutant of Decrypted: the unpadding accepts what any key decrypts, so a
\* ciphertext decrypts under every key.
DecryptedUnderAnyKey(table, enc, cipher_key) ==
    LET hit == {n \in 1..Len(table) : enc = CipherText(n, Len(table[n].pt))}
    IN  IF hit # {}
        THEN [ok |-> TRUE, pt |-> table[CHOOSE n \in hit : TRUE].pt]
        ELSE [ok |-> FALSE, pt |-> <<>>]

\* base64.b64decode + AES-CBC decrypt + PKCS7 unpad + decode of `enc` under
\* `cipher_key`: the plaintext when enc is a ciphertext made under that key;
\* every other input makes one of the steps raise.
Decrypted(table, enc, cipher_key) ==
    LET hit == {n \in 1..Len(table) : enc = CipherText(n, Len(table[n].pt))}
    IN  IF hit # {} /\ table[CHOOSE n \in hit : TRUE].key = cipher_key
        THEN [ok |-> TRUE, pt |-> table[CHOOSE n \in hit : TRUE].pt]
        ELSE [ok |-> FALSE, pt |-> <<>>]

\* ------------------------------------------------------------------ inputs
\* Pieces the input .env texts are concatenated from: records, a record
\* with an empty name, records whose value contains '=' (one of them with an
\* empty name), a comment line, a record with leading whitespace, and a
\* last line without "\n".
Pieces ==
    { <<"A", "=", "1", NL>>,
      <<"B", "=", "2", NL>>,
      <<"#", NL>>,
      <<"=", "1", NL>>,
      <<"A", "=", "1", "=", "2", NL>>,
      <<"=", "1", "=", "2", NL>>,
      <<" ", "A", "=", "1", NL>>,
      <<"B", "=", "2">> }

Docs == {Concat(ps) : ps \in UNION {[1..n -> Pieces] : n \in 0..MaxLines}}

\* JSON input objects: string values and a non-string value (a number).
JsonKeys == {<<"A">>, <<"B">>, <<>>}
JsonValues == {[isStr |-> TRUE, s |-> <<"1">>], [isStr |-> FALSE, s |-> <<"5">>]}

JsonDocs ==
    UNION {[K -> JsonValues] : K \in {S \in SUBSET JsonKeys : Cardinality(S) <= MaxLines}}

\* (password, app key) pairs.  The first two build the same composite
\* secret "a::a".
Creds ==
    { [password |-> <<"a", ":">>, app_key |-> <<"a">>],
      [password |-> <<"a">>, app_key |-> <<":", "a">>],
      [password |-> <<"b">>, app_key |-> <<"a">>] }

\* Values os.urandom(16) may return for the salt.
Salts == {"salt1", "salt2"}

\* Names an edited mapping entry may be given.
TamperNames == {<<>>, <<"A">>, <<"B">>}

\* ------------------------------------------------------------------- state
VARIABLES
    variant,        \* "app", "legacy" or "json": which codec runs
    pc,             \* position of the run
    inputText,      \* content of the input .env file
    jsonInput,      \* the input JSON object
    ocreds,         \* password and app key given to obfuscation
    dcreds,         \* password and app key given to deobfuscation
    salt,           \* local `salt` of the running function
    key,            \* local `key` of the running function
    lines,          \* local `lines`
    idx,            \* 1-based position of the loop in `lines`
    obfuscation_mapping,  \* local dict of the running function
    obfuscated_content,   \* local string the app codec signs
    obfFile,        \* the obfuscated document on disk
    mapFile,        \* the mapping file on disk
    outFile,        \* the deobfuscated document on disk
    cts,            \* ciphertexts produced so far
    log,            \* messages printed by deobfuscation
    raised,         \* exception that ended the run, "none" if none
    tamper,         \* what was edited between the two runs (history)
    retval,         \* what the deobfuscation function returned
    kargs,          \* key derivation: the two argument triples of generate_key
    kout,           \* key derivation: the two keys returned, <<>> before the calls
    scall,          \* service: operation and arguments of the call, and its environment
    spc,            \* service: position of the call
    sraised,        \* service: exception the call raised, "none" if none
    runnerArgs,     \* service: argument lists _run_script was called with
    sresult,        \* service: value the call returned
    scriptWrote,    \* service: files the script process wrote
    pargs,          \* default path: input path and is_deobfuscation
    pout,           \* default path: the path of the service and that of the script
    temp_files,     \* REST: ids of the uploaded files (helpers.temp_files)
    task_results,   \* REST: helpers.task_results, task_id -> record
    atasks,         \* REST: the background tasks added, by task_id
    aresp,          \* REST: the last response an endpoint gave
    aenv,           \* REST: os.environ[OBFUSCATOR_APP_KEY], None when unset
    rcall,          \* script runner: the secrets and paths of the service call
    rpc,            \* script runner: position of the call
    rargs,          \* script runner: the argument list handed to _run_script
    rcommand,       \* script runner: the command line handed to the shell
    rshell          \* script runner: what the shell made of the command line

codecVars ==
    << variant, pc, inputText, jsonInput, ocreds, dcreds, salt, key, lines, idx,
       obfuscation_mapping, obfuscated_content, obfFile, mapFile, outFile,
       cts, log, raised, tamper, retval >>

keyVars == <<kargs, kout>>

svcVars == <<scall, spc, sraised, runnerArgs, sresult, scriptWrote>>

pathVars == <<pargs, pout>>

apiVars == <<temp_files, task_results, atasks, aresp, aenv>>

runVars == <<rcall, rpc, rargs, rcommand, rshell>>

\* What the codec runs leave alone.
offCodec == <<keyVars, svcVars, pathVars, apiVars, runVars>>

vars == <<codecVars, keyVars, svcVars, pathVars, apiVars, runVars>>

NoCreds == [password |-> <<>>, app_key |-> <<>>]
NoKey == Scrypt(<<>>, "none")
NoSignature == GenerateFileSignature(<<>>, NoKey)
\* The "signature" field holding the empty string.
EmptySignature == [empty |-> TRUE]

\* A path that does not exist.
NoFile == [exists |-> FALSE, text |-> <<>>, data |-> EmptyDict]
\* A line-codec document and a JSON document on disk.
TextFile(text) == [exists |-> TRUE, text |-> text, data |-> EmptyDict]
JsonFile(data) == [exists |-> TRUE, text |-> <<>>, data |-> data]

NoMapFile ==
    [exists |-> FALSE, salt |-> "none", mapping |-> EmptyDict,
     hasSignature |-> FALSE, signature |-> NoSignature]

NoTamper == [kind |-> "none", tok |-> <<>>, sig |-> "kept"]

\* Nothing returned yet, a returned None and a returned object.
NoRet == [returned |-> FALSE, isNone |-> TRUE, value |-> EmptyDict]
RetNone == [returned |-> TRUE, isNone |-> TRUE, value |-> EmptyDict]
RetValue(v) == [returned |-> TRUE, isNone |-> FALSE, value |-> v]

\* No key-derivation check is running.
KeyIdle == kargs = <<>> /\ kout = <<>>

\* Python's None, a str, and `not x` for the two.
None == [isNone |-> TRUE, s |-> ""]
Str(s) == [isNone |-> FALSE, s |-> s]
Falsy(x) == x.isNone \/ x.s = ""

NoCall ==
    [op |-> "none", inputExists |-> FALSE, mappingExists |-> FALSE,
     password |-> "", app_key |-> None, envKey |-> None, output_file |-> None]

\* The value a call returns: the script's return code.
NoResult == [returned |-> FALSE, returncode |-> 0]
Returned(code) == [returned |-> TRUE, returncode |-> code]

\* No service call takes place.
SvcIdle ==
    /\ scall = NoCall /\ spc = "off" /\ sraised = "none"
    /\ runnerArgs = <<>> /\ sresult = NoResult /\ scriptWrote = {}

NoPathArgs == [input_path |-> <<>>, is_deobfuscation |-> FALSE]
NoPaths == [computed |-> FALSE, service |-> <<>>, script |-> <<>>]

\* No default output path is being computed.
PathIdle == pargs = NoPathArgs /\ pout = NoPaths

NoResponse == [endpoint |-> "none", code |-> 0, task_id |-> 0, status |-> "", detail |-> ""]

\* The REST application is not running.
ApiIdle ==
    /\ temp_files = {} /\ task_results = EmptyDict /\ atasks = <<>>
    /\ aresp = NoResponse /\ aenv = None

\* No call of the script runner is in progress.
NoRunCall == [password |-> <<>>, app_key |-> <<>>, output_file |-> <<>>]
NoShell == [status |-> "none", commands |-> <<>>]
RunIdle ==
    /\ rcall = NoRunCall /\ rpc = "idle"
    /\ rargs = <<>> /\ rcommand = <<>> /\ rshell = NoShell

Init ==
    /\ KeyIdle
    /\ SvcIdle
    /\ PathIdle
    /\ ApiIdle
    /\ RunIdle
    /\ variant \in {"app", "legacy", "json"}
    /\ pc = "start"
    /\ IF variant = "json"
       THEN inputText = <<>> /\ jsonInput \in JsonDocs
       ELSE inputText \in Docs /\ jsonInput = EmptyDict
    /\ ocreds \in Creds
    /\ dcreds = NoCreds
    /\ salt = "none"
    /\ key = NoKey
    /\ lines = <<>>
    /\ idx = 1
    /\ obfuscation_mapping = EmptyDict
    /\ obfuscated_content = <<>>
    /\ obfFile = NoFile
    /\ mapFile = NoMapFile
    /\ outFile = NoFile
    /\ cts = <<>>
    /\ log = <<>>
    /\ raised = "none"
    /\ tamper = NoTamper
    /\ retval = NoRet

\* generate_key as each codec calls it.
MasterKey(v, creds, s) ==
    IF v = "app"
    THEN GenerateKey(creds.password, creds.app_key, s)
    ELSE GenerateKeyNoApp(creds.password, s)

\* ---------------------------------------------------- line codec: obfuscate
\* obfuscate_env_file up to the `with open(output_file, 'w')`: salt, key,
\* readlines, and the output file created empty.
ObfOpen ==
    /\ pc = "start" /\ variant \in {"app", "legacy"}
    /\ salt' \in Salts
    /\ key' = MasterKey(variant, ocreds, salt')
    /\ lines' = ReadLines(ReadText(inputText))
    /\ idx' = 1
    /\ obfuscation_mapping' = EmptyDict
    /\ obfuscated_content' = <<>>
    /\ obfFile' = TextFile(<<>>)
    /\ pc' = "obf_loop"
    /\ UNCHANGED <<variant, inputText, jsonInput, ocreds, dcreds, mapFile, outFile,
                   cts, log, raised, tamper>>
    /\ UNCHANGED retval
    /\ UNCHANGED offCodec

\* The output line of one record: f"{obfuscated_key}={encrypted_value}\n".
ObfOutputLine(line, n) ==
    LET kv == SplitFirstEq(Strip(line))
    IN  ObfuscatedKey(kv[1]) \o <<"=">> \o CipherText(n, Len(kv[2])) \o <<NL>>

\* What the loop body writes for `line`: a record line for a line that
\* contains '=', nothing for any other line.
ObfWritten(line, n) == IF HasEq(line) THEN ObfOutputLine(line, n) ELSE <<>>

\* One iteration of `for line in lines` of obfuscate_env_file.
ObfLine ==
    /\ pc = "obf_loop" /\ idx <= Len(lines)
    /\ LET line == lines[idx]
           kv == SplitFirstEq(Strip(line))
           n == Len(cts) + 1
       IN  IF HasEq(line)
           THEN /\ cts' = Encrypted(cts, kv[2], DeriveValueSpecificKey(key, kv[1]))
                /\ obfuscation_mapping' =
                     DictPut(obfuscation_mapping, ObfuscatedKey(kv[1]), kv[1])
                /\ obfuscated_content' =
                     IF variant = "app"
                     THEN obfuscated_content \o ObfWritten(line, n)
                     ELSE obfuscated_content
                /\ obfFile' = TextFile(obfFile.text \o ObfWritten(line, n))
           ELSE /\ obfFile' = TextFile(obfFile.text \o ObfWritten(line, n))
                /\ UNCHANGED <<cts, obfuscation_mapping, obfuscated_content>>
    /\ idx' = idx + 1
    /\ UNCHANGED <<variant, pc, inputText, jsonInput, ocreds, dcreds, salt, key,
                   lines, mapFile, outFile, log, raised, tamper>>
    /\ UNCHANGED retval
    /\ UNCHANGED offCodec

\* An exception raised inside the loop body of a record (file.write or
\* os.urandom failing with OSError): it propagates out of
\* obfuscate_env_file, the `with` closes the file.
ObfFault ==
    /\ pc = "obf_loop" /\ idx <= Len(lines) /\ HasEq(lines[idx])
    /\ pc' = "obf_failed"
    /\ raised' = "OSError"
    /\ UNCHANGED <<variant, inputText, jsonInput, ocreds, dcreds, salt, key, lines,
                   idx, obfuscation_mapping, obfuscated_content, obfFile, mapFile,
                   outFile, cts, log, tamper>>
    /\ UNCHANGED retval
    /\ UNCHANGED offCodec

\* After the loop: the signature (app codec) and the mapping file.
ObfFinish ==
    /\ pc = "obf_loop" /\ idx > Len(lines)
    /\ mapFile' =
         [exists |-> TRUE, salt |-> salt, mapping |-> obfuscation_mapping,
          hasSignature |-> (variant = "app"),
          signature |-> IF variant = "app"
                        THEN GenerateFileSignature(obfuscated_content, key)
                        ELSE NoSignature]
    /\ pc' = "obf_done"
    /\ UNCHANGED <<variant, inputText, jsonInput, ocreds, dcreds, salt, key, lines,
                   idx, obfuscation_mapping, obfuscated_content, obfFile, outFile,
                   cts, log, raised, tamper>>
    /\ UNCHANGED retval
    /\ UNCHANGED offCodec

\* -------------------------------------------------- line codec: deobfuscate
UnknownKeyLine(tok) == <<"# UNKNOWN KEY: ">> \o tok \o <<NL>>

ErrorLine(v, name) ==
    <<"# ERROR decrypting ">> \o name \o
    <<IF v = "app" THEN ": Possible tampering or wrong app key"
                   ELSE ": Possible mapping tampering">> \o <<NL>>

\* One iteration of `for line in lines` of deobfuscate_env_file of codec v:
\* the text it writes, the message it prints and the exception it lets
\* escape.  The app codec looks the token up with .get() and tests
\* `if not original_key`; the legacy codec indexes the dict.
DeobStep(v, line, mapping, k, table) ==
    LET kv == SplitFirstEq(Strip(line))
        tok == kv[1]
        known == tok \in DOMAIN mapping
    IN  IF ~HasEq(line)
        THEN [written |-> <<>>, msg |-> <<>>, raised |-> "none"]
        ELSE IF v = "app" /\ (~known \/ mapping[tok] = <<>>)
        THEN [written |-> UnknownKeyLine(tok), msg |-> <<"UNKNOWN">>, raised |-> "none"]
        ELSE IF ~known
        THEN [written |-> <<>>, msg |-> <<>>, raised |-> "KeyError"]
        ELSE LET r == Decrypted(table, kv[2], DeriveValueSpecificKey(k, mapping[tok]))
             IN  IF r.ok
                 THEN [written |-> mapping[tok] \o <<"=">> \o r.pt \o <<NL>>,
                       msg |-> <<>>, raised |-> "none"]
                 ELSE [written |-> ErrorLine(v, mapping[tok]),
                       msg |-> <<"ERROR">>, raised |-> "none"]

\* stored_signature = mapping_data.get("signature") is truthy: the field is
\* there and is not empty.
HasStoredSignature(mf) == mf.hasSignature /\ mf.signature # EmptySignature

\* Mutant of SignatureWarning: a mapping without a stored signature fails
\* the check too.
SignatureWarningRequired(v, mf, content, k) ==
    IF v = "app"
       /\ (~HasStoredSignature(mf) \/ GenerateFileSignature(content, k) # mf.signature)
    THEN <<"WARNING">>
    ELSE <<>>

\* The signature check of the app codec: a warning when a signature is
\* stored and the one recomputed over the file differs from it.
SignatureWarning(v, mf, content, k) ==
    IF v = "app" /\ HasStoredSignature(mf)
       /\ GenerateFileSignature(content, k) # mf.signature
    THEN <<"WARNING">>
    ELSE <<>>

\* Mutant of DeobOpen: a signature mismatch ends the run before any record
\* is processed.
DeobOpenAbortOnMismatch ==
    /\ pc = "obf_done" /\ variant \in {"app", "legacy"}
    /\ dcreds' \in Creds
    /\ salt' = mapFile.salt
    /\ key' = MasterKey(variant, dcreds', mapFile.salt)
    /\ obfuscation_mapping' = mapFile.mapping
    /\ log' = SignatureWarning(variant, mapFile, ReadText(obfFile.text), key')
    /\ lines' = ReadLines(ReadText(obfFile.text))
    /\ idx' = 1
    /\ IF log' = <<>>
       THEN outFile' = TextFile(<<>>) /\ pc' = "deob_loop" /\ raised' = raised
       ELSE outFile' = outFile /\ pc' = "deob_failed" /\ raised' = "SignatureError"
    /\ UNCHANGED <<variant, inputText, jsonInput, ocreds, obfuscated_content,
                   obfFile, mapFile, cts, tamper>>
    /\ UNCHANGED retval
    /\ UNCHANGED offCodec

\* deobfuscate_env_file up to the `with open(output_file, 'w')`.
DeobOpen ==
    /\ pc = "obf_done" /\ variant \in {"app", "legacy"}
    /\ dcreds' \in Creds
    /\ salt' = mapFile.salt
    /\ key' = MasterKey(variant, dcreds', mapFile.salt)
    /\ obfuscation_mapping' = mapFile.mapping
    /\ log' = SignatureWarning(variant, mapFile, ReadText(obfFile.text), key')
    /\ lines' = ReadLines(ReadText(obfFile.text))
    /\ idx' = 1
    /\ outFile' = TextFile(<<>>)
    /\ pc' = "deob_loop"
    /\ UNCHANGED <<variant, inputText, jsonInput, ocreds, obfuscated_content,
                   obfFile, mapFile, cts, raised, tamper>>
    /\ UNCHANGED retval
    /\ UNCHANGED offCodec

DeobLine ==
    /\ pc = "deob_loop" /\ idx <= Len(lines)
    /\ LET r == DeobStep(variant, lines[idx], obfuscation_mapping, key, cts)
       IN  /\ outFile' = TextFile(outFile.text \o r.written)
           /\ log' = log \o r.msg
           /\ raised' = r.raised
           /\ pc' = IF r.raised = "none" THEN pc ELSE "deob_failed"
    /\ idx' = idx + 1
    /\ UNCHANGED <<variant, inputText, jsonInput, ocreds, dcreds, salt, key, lines,
                   obfuscation_mapping, obfuscated_content, obfFile, mapFile, cts,
                   tamper>>
    /\ UNCHANGED retval
    /\ UNCHANGED offCodec

\* The loop is over: the function prints where the file was saved and ends
\* without a return statement, which returns None.
DeobFinish ==
    /\ pc = "deob_loop" /\ idx > Len(lines)
    /\ pc' = "deob_done"
    /\ retval' = RetNone
    /\ UNCHANGED <<variant, inputText, jsonInput, ocreds, dcreds, salt, key, lines,
                   idx, obfuscation_mapping, obfuscated_content, obfFile, mapFile,
                   outFile, cts, log, raised, tamper>>
    /\ UNCHANGED offCodec

\* ------------------------------------------------------------- JSON codec
\* The loop of obfuscate_json over input_data.items(), from state st =
\* [data, mapping, table, raised].  value.encode() raises AttributeError for
\* a value that is not a string; the value is encrypted under the master
\* key itself.
RECURSIVE JsonObfLoop(_, _, _, _)
JsonObfLoop(keys, input, k, st) ==
    IF keys = <<>> THEN st
    ELSE LET key_name == Head(keys)
             value == input[key_name]
             n == Len(st.table) + 1
         IN  IF ~value.isStr
             THEN [st EXCEPT !.raised = "AttributeError"]
             ELSE JsonObfLoop(Tail(keys), input, k,
                    [data |-> DictPut(st.data, ObfuscatedKey(key_name),
                                      CipherText(n, Len(value.s))),
                     mapping |-> DictPut(st.mapping, ObfuscatedKey(key_name), key_name),
                     table |-> Encrypted(st.table, value.s, k),
                     raised |-> "none"])

\* obfuscate_json(input_data, password) with the salt os.urandom returned.
ObfuscateJson(input, password, s, table) ==
    JsonObfLoop(KeyOrder(DOMAIN input), input, GenerateKeyNoApp(password, s),
                [data |-> EmptyDict, mapping |-> EmptyDict, table |-> table,
                 raised |-> "none"])

\* The obfuscation branch of main(): obfuscate_json, then the two files.
\* An exception of obfuscate_json leaves main before any file is opened.
JsonObfuscate ==
    /\ pc = "start" /\ variant = "json"
    /\ salt' \in Salts
    /\ LET r == ObfuscateJson(jsonInput, ocreds.password, salt', cts)
       IN  /\ key' = GenerateKeyNoApp(ocreds.password, salt')
           /\ raised' = r.raised
           /\ IF r.raised = "none"
              THEN /\ cts' = r.table
                   /\ obfuscation_mapping' = r.mapping
                   /\ obfFile' = JsonFile(r.data)
                   /\ mapFile' = [exists |-> TRUE, salt |-> salt', mapping |-> r.mapping,
                                  hasSignature |-> FALSE, signature |-> NoSignature]
                   /\ pc' = "obf_done"
              ELSE /\ pc' = "obf_failed"
                   /\ UNCHANGED <<cts, obfuscation_mapping, obfFile, mapFile>>
    /\ UNCHANGED <<variant, inputText, jsonInput, ocreds, dcreds, lines, idx,
                   obfuscated_content, outFile, log, tamper>>
    /\ UNCHANGED retval
    /\ UNCHANGED offCodec

\* The loop of deobfuscate_json over input_data.items(), from state st =
\* [data, raised]: mapping[obfuscated_key] raises KeyError for a token that
\* is not in the mapping, decrypt_value raises when decryption fails; there
\* is no try/except.
RECURSIVE JsonDeobLoop(_, _, _, _, _, _)
JsonDeobLoop(keys, input, mapping, k, table, st) ==
    IF keys = <<>> THEN st
    ELSE LET obfuscated_key == Head(keys)
             r == Decrypted(table, input[obfuscated_key], k)
         IN  IF obfuscated_key \notin DOMAIN mapping
             THEN [st EXCEPT !.raised = "KeyError"]
             ELSE IF ~r.ok
             THEN [st EXCEPT !.raised = "ValueError"]
             ELSE JsonDeobLoop(Tail(keys), input, mapping, k, table,
                    [data |-> DictPut(st.data, mapping[obfuscated_key],
                                      [isStr |-> TRUE, s |-> r.pt]),
                     raised |-> "none"])

\* deobfuscate_json(input_data, mapping, password, salt)
DeobfuscateJson(input, mapping, password, s, table) ==
    JsonDeobLoop(KeyOrder(DOMAIN input), input, mapping,
                 GenerateKeyNoApp(password, s), table,
                 [data |-> EmptyDict, raised |-> "none"])

\* The decryption branch of main(): the mapping file and the input are
\* read, deobfuscate_json runs, and only then the output file is written.
JsonDeobfuscate ==
    /\ pc = "obf_done" /\ variant = "json"
    /\ dcreds' \in Creds
    /\ LET r == DeobfuscateJson(obfFile.data, mapFile.mapping, dcreds'.password,
                                mapFile.salt, cts)
       IN  /\ raised' = r.raised
           /\ IF r.raised = "none"
              THEN /\ outFile' = JsonFile(r.data) /\ pc' = "deob_done"
                   /\ retval' = RetValue(r.data)
              ELSE /\ outFile' = outFile /\ pc' = "deob_failed"
                   /\ retval' = retval
    /\ salt' = mapFile.salt
    /\ key' = GenerateKeyNoApp(dcreds'.password, mapFile.salt)
    /\ obfuscation_mapping' = mapFile.mapping
    /\ UNCHANGED <<variant, inputText, jsonInput, ocreds, lines, idx,
                   obfuscated_content, obfFile, mapFile, cts, log, tamper>>
    /\ UNCHANGED offCodec

\* ------------------------------------------------------------ environment
\* Between the two runs the files are in the hands of whoever stores them.
\* One edit of the document or of the mapping entries is taken per
\* behaviour, and one of the stored signature; both are remembered in
\* `tamper`.

\* The original_name of one mapping entry is changed to a different string.
TamperMappingName ==
    /\ pc = "obf_done" /\ tamper.kind = "none"
    /\ \E tok \in DOMAIN mapFile.mapping :
         \E name \in TamperNames \ {mapFile.mapping[tok]} :
            /\ mapFile' = [mapFile EXCEPT !.mapping = DictPut(@, tok, name)]
            /\ tamper' = [kind |-> "rename", tok |-> tok, sig |-> tamper.sig]
    /\ UNCHANGED <<variant, pc, inputText, jsonInput, ocreds, dcreds, salt, key,
                   lines, idx, obfuscation_mapping, obfuscated_content, obfFile,
                   outFile, cts, log, raised>>
    /\ UNCHANGED retval
    /\ UNCHANGED offCodec

\* One mapping entry is removed.
TamperMappingRemove ==
    /\ pc = "obf_done" /\ tamper.kind = "none"
    /\ \E tok \in DOMAIN mapFile.mapping :
            /\ mapFile' = [mapFile EXCEPT !.mapping = DictDel(@, tok)]
            /\ tamper' = [kind |-> "remove", tok |-> tok, sig |-> tamper.sig]
    /\ UNCHANGED <<variant, pc, inputText, jsonInput, ocreds, dcreds, salt, key,
                   lines, idx, obfuscation_mapping, obfuscated_content, obfFile,
                   outFile, cts, log, raised>>
    /\ UNCHANGED retval
    /\ UNCHANGED offCodec

\* The "signature" field of the mapping file is removed, or set to "".
TamperSignature ==
    /\ pc = "obf_done" /\ variant = "app" /\ tamper.sig = "kept"
    /\ \E how \in {"removed", "emptied"} :
         /\ mapFile' = [mapFile EXCEPT
                          !.hasSignature = (how = "emptied"),
                          !.signature = IF how = "emptied" THEN EmptySignature
                                        ELSE NoSignature]
         /\ tamper' = [tamper EXCEPT !.sig = how]
    /\ UNCHANGED <<variant, pc, inputText, jsonInput, ocreds, dcreds, salt, key,
                   lines, idx, obfuscation_mapping, obfuscated_content, obfFile,
                   outFile, cts, log, raised>>
    /\ UNCHANGED retval
    /\ UNCHANGED offCodec

\* A record with a token of no mapping entry and a value that is no
\* ciphertext.
ForeignToken == <<"W", "g">>
ForeignValue == <<"x">>

\* The line ends of a stored text rewritten from "\n" to "\r\n".
RECURSIVE CrLf(_)
CrLf(stored) ==
    IF stored = <<>> THEN <<>>
    ELSE (IF Head(stored) = NL THEN <<CR, NL>> ELSE <<Head(stored)>>)
         \o CrLf(Tail(stored))

\* The obfuscated document is edited: a foreign record is added, or (line
\* codec) the first line is cut, or (line codec) a comment line is put
\* first, or (line codec) its line ends are rewritten.
TamperDocument ==
    /\ pc = "obf_done" /\ tamper.kind = "none"
    /\ \/ /\ variant = "json"
          /\ obfFile' = JsonFile(DictPut(obfFile.data, ForeignToken, ForeignValue))
          /\ tamper' = [kind |-> "add", tok |-> ForeignToken, sig |-> tamper.sig]
       \/ /\ variant # "json"
          /\ obfFile' = TextFile(obfFile.text \o ForeignToken \o <<"=">>
                                 \o ForeignValue \o <<NL>>)
          /\ tamper' = [kind |-> "add", tok |-> ForeignToken, sig |-> tamper.sig]
       \/ /\ variant # "json" /\ obfFile.text # <<>>
          /\ obfFile' = TextFile(Concat(Tail(ReadLines(obfFile.text))))
          /\ tamper' = [kind |-> "cut", tok |-> <<>>, sig |-> tamper.sig]
       \/ /\ variant # "json"
          /\ obfFile' = TextFile(<<"#", NL>> \o obfFile.text)
          /\ tamper' = [kind |-> "comment", tok |-> <<>>, sig |-> tamper.sig]
       \/ /\ variant # "json" /\ obfFile.text # <<>>
          /\ obfFile' = TextFile(CrLf(obfFile.text))
          /\ tamper' = [kind |-> "crlf", tok |-> <<>>, sig |-> tamper.sig]
    /\ UNCHANGED <<variant, pc, inputText, jsonInput, ocreds, dcreds, salt, key,
                   lines, idx, obfuscation_mapping, obfuscated_content, mapFile,
                   outFile, cts, log, raised>>
    /\ UNCHANGED retval
    /\ UNCHANGED offCodec

\* ----------------------------------------------------------- specification
Next ==
    \/ ObfOpen
    \/ ObfLine
    \/ ObfFault
    \/ ObfFinish
    \/ DeobOpen
    \/ DeobLine
    \/ DeobFinish
    \/ JsonObfuscate
    \/ JsonDeobfuscate
    \/ TamperMappingName
    \/ TamperMappingRemove
    \/ TamperDocument
    \/ TamperSignature

Spec == Init /\ [][Next]_vars

\* --------------------------------------- key derivation as a pure function
\* Passwords and app keys: every string of at most MaxSecretLen characters
\* over a letter and the ':' that generate_key puts between the two.
Secrets == UNION {[1..n -> {"a", ":"}] : n \in 0..MaxSecretLen}

KeyArgs == [password : Secrets, app_key : Secrets, salt : Salts]

\* No codec run takes place.
CodecIdle ==
    /\ variant = "app" /\ pc = "off"
    /\ inputText = <<>> /\ jsonInput = EmptyDict
    /\ ocreds = NoCreds /\ dcreds = NoCreds
    /\ salt = "none" /\ key = NoKey
    /\ lines = <<>> /\ idx = 1
    /\ obfuscation_mapping = EmptyDict /\ obfuscated_content = <<>>
    /\ obfFile = NoFile /\ mapFile = NoMapFile /\ outFile = NoFile
    /\ cts = <<>> /\ log = <<>> /\ raised = "none" /\ tamper = NoTamper
    /\ retval = NoRet

KeyInit ==
    /\ CodecIdle
    /\ SvcIdle
    /\ PathIdle
    /\ ApiIdle
    /\ RunIdle
    /\ kargs \in [1..2 -> KeyArgs]
    /\ kout = <<>>

\* generate_key is called on each of the two argument triples.
KeyDerive ==
    /\ kout = <<>> /\ kargs # <<>>
    /\ kout' = [i \in 1..2 |->
                  GenerateKey(kargs[i].password, kargs[i].app_key, kargs[i].salt)]
    /\ UNCHANGED <<kargs, codecVars, svcVars, pathVars, apiVars, runVars>>

KeyNext == KeyDerive

KeySpec == KeyInit /\ [][KeyNext]_vars

\* ----------------------------------------------------- records of documents
\* The record lines of a line-codec text as the loops read it, in order.
Records(text) == SelectSeq(ReadLines(ReadText(text)), HasEq)

\* key and value of a record line, as both loops take them.
RecordName(line) == SplitFirstEq(Strip(line))[1]
RecordValue(line) == SplitFirstEq(Strip(line))[2]

\* Number of records of the obfuscated document on disk.
ObfRecordCount ==
    IF variant = "json"
    THEN Cardinality(DOMAIN obfFile.data)
    ELSE Len(Records(obfFile.text))

\* The key a ciphertext text was encrypted under.
CipherKeyOf(enc) ==
    cts[CHOOSE n \in 1..Len(cts) : enc = CipherText(n, Len(cts[n].pt))].key

\* The master key the obfuscation run derived.
ObfuscationKey == MasterKey(variant, ocreds, mapFile.salt)

\* A deobfuscation run has ended, normally or by an exception.
DeobEnded == pc \in {"deob_done", "deob_failed"}

\* ------------------------------------------------------------------ claims

\* C1 (as stated): a document with unique key names that is obfuscated and
\* then deobfuscated with the same password and app key, the files left
\* untouched in between, comes back exactly: the same text (line codecs),
\* the same object (JSON codec).
UniqueNames(text) ==
    \A i, j \in 1..Len(Records(text)) :
        i # j => RecordName(Records(text)[i]) # RecordName(Records(text)[j])

C1_RoundTrip ==
    (pc = "deob_done" /\ tamper = NoTamper /\ dcreds = ocreds) =>
        IF variant = "json"
        THEN outFile.data = jsonInput
        ELSE UniqueNames(inputText) => outFile.text = inputText

\* C2 (as stated): generate_key returns equal keys for equal (P, A, S) and
\* different keys whenever P, A or S differs, also for P and A that contain
\* ':'.
C2_KeyDeterministicAndSensitive ==
    kout # <<>> => ((kargs[1] = kargs[2]) <=> (kout[1] = kout[2]))

\* The deterministic half of C2, which the code satisfies.
C2_KeyDeterministic ==
    kout # <<>> => (kargs[1] = kargs[2] => kout[1] = kout[2])

\* C3 (as stated): in every codec the value of a record is encrypted under a
\* key derived from the master key and the record's original name, so two
\* records of one obfuscation run with different original names are never
\* encrypted under the same key.
ObfuscatedPairs ==
    IF variant = "json"
    THEN {<<t, obfFile.data[t]>> : t \in DOMAIN obfFile.data}
    ELSE {<<RecordName(l), RecordValue(l)>> :
            l \in {Records(obfFile.text)[i] : i \in 1..Len(Records(obfFile.text))}}

C3_KeyIsolation ==
    (pc = "obf_done" /\ tamper = NoTamper) =>
        \A r1, r2 \in ObfuscatedPairs :
            mapFile.mapping[r1[1]] # mapFile.mapping[r2[1]]
                => CipherKeyOf(r1[2]) # CipherKeyOf(r2[2])

\* C3 restricted to the two line codecs, which the code satisfies.
C3_KeyIsolationLineCodecs == variant # "json" => C3_KeyIsolation

\* The lines deobfuscation wrote.
OutLines == ReadLines(outFile.text)

\* A commented-out diagnostic line of deobfuscate_env_file.
IsDiagnostic(line) == line[1] \in {"# UNKNOWN KEY: ", "# ERROR decrypting "}

\* The line that restores a record of the input.
RestoredLine(line) == RecordName(line) \o <<"=">> \o RecordValue(line) \o <<NL>>

HasMsg(m) == \E i \in 1..Len(log) : log[i] = m

\* C4 (as stated): app line codec; the original_name of one mapping entry
\* was changed to a different string and deobfuscation ran with the correct
\* password and app key.  Then exactly the records of that token come out
\* as diagnostic lines, and every other record is restored with its
\* original name and value.
C4_TamperedEntryFailsOthersRestored ==
    (variant = "app" /\ pc = "deob_done" /\ tamper.kind = "rename" /\ dcreds = ocreds) =>
        LET recs == Records(inputText)
        IN  /\ Len(OutLines) = Len(recs)
            /\ \A i \in 1..Len(recs) :
                 IF ObfuscatedKey(RecordName(recs[i])) = tamper.tok
                 THEN IsDiagnostic(OutLines[i])
                 ELSE OutLines[i] = RestoredLine(recs[i])

\* C4 for documents in which no record has an empty name: this the code
\* satisfies.
C4_TamperDetectionNamedRecords ==
    (\A i \in 1..Len(Records(inputText)) : RecordName(Records(inputText)[i]) # <<>>)
        => C4_TamperedEntryFailsOthersRestored

\* The deobfuscation run derived a master key other than the one of the
\* obfuscation run, on the files as obfuscation wrote them.
WrongKeyRun == DeobEnded /\ tamper = NoTamper /\ key # ObfuscationKey

\* An observable error signal: the signature warning, a per-record
\* decryption error, or an exception that ends the run.
ErrorSignal == HasMsg("WARNING") \/ HasMsg("ERROR") \/ raised # "none"

\* Nothing deobfuscation wrote is a decrypted record.
NoPlaintextWritten ==
    IF variant = "json"
    THEN outFile.exists => DOMAIN outFile.data = {}
    ELSE \A i \in 1..Len(OutLines) : IsDiagnostic(OutLines[i])

C6_JsonWrongPasswordReturns ==
    (variant = "json" /\ WrongKeyRun /\ ObfRecordCount >= 1) =>
        /\ raised = "none"
        /\ pc = "deob_done"
        /\ Cardinality(DOMAIN outFile.data) = ObfRecordCount

\* C7 (as stated): when an obfuscation run fails before it has transformed
\* every record, neither the obfuscated document nor the mapping file has
\* been written.
C7_NoPartialOutput ==
    pc = "obf_failed" => (~obfFile.exists /\ ~mapFile.exists)

\* C7 for the JSON codec, whose main() writes after obfuscate_json returned.
C7_NoPartialOutputJson == variant = "json" => C7_NoPartialOutput

\* Lines of `after` stand where the non-record lines of `before` stood.
PassedThrough(before, after) ==
    /\ Len(ReadLines(after)) = Len(ReadLines(before))
    /\ \A i \in 1..Len(ReadLines(before)) :
         ~HasEq(ReadLines(before)[i]) => ReadLines(after)[i] = ReadLines(before)[i]

\* C8 (as stated): line codecs; every input line without '=' appears
\* unchanged and in the same position in the output, when obfuscating and
\* when deobfuscating.
C8_PassThrough ==
    /\ (variant # "json" /\ pc = "obf_done" /\ tamper = NoTamper)
          => PassedThrough(inputText, obfFile.text)
    /\ (variant # "json" /\ pc = "deob_done")
          => PassedThrough(obfFile.text, outFile.text)

\* C9 (as stated): whatever the obfuscated document and the mapping,
\* deobfuscation with the password of the obfuscation run produces exactly one output line (line codec) or entry
\* (JSON codec) per input record.
C9_Cardinality ==
    (DeobEnded /\ dcreds = ocreds) =>
        IF variant = "json"
        THEN outFile.exists /\ Cardinality(DOMAIN outFile.data) = ObfRecordCount
        ELSE Len(OutLines) = ObfRecordCount

\* C9 for the app line codec alone, which the code satisfies.
C9_CardinalityAppCodec == variant = "app" => C9_Cardinality

\* C10 (as stated): line codecs; a record whose token has no mapping entry
\* is written as a commented-out diagnostic line, the run does not abort and
\* every record is processed.
C10_UnknownTokenDiagnostic ==
    (variant # "json" /\ DeobEnded) =>
        LET recs == Records(obfFile.text)
        IN  /\ raised = "none"
            /\ Len(OutLines) = Len(recs)
            /\ \A i \in 1..Len(recs) :
                 RecordName(recs[i]) \notin DOMAIN mapFile.mapping
                    => OutLines[i] = UnknownKeyLine(RecordName(recs[i]))

\* C10 for the app line codec alone, which the code satisfies.
C10_UnknownTokenDiagnosticAppCodec == variant = "app" => C10_UnknownTokenDiagnostic

\* C11 (as stated): JSON codec; when the obfuscated object holds a token
\* with no mapping entry, deobfuscate_json returns a result that has an entry
\* for every record: an error value for that record and the restored value
\* for each of the others; the call does not abort.
C11_JsonUnknownTokenErrorValue ==
    (variant = "json" /\ DeobEnded /\ dcreds = ocreds
       /\ \E t \in DOMAIN obfFile.data : t \notin DOMAIN mapFile.mapping) =>
        /\ raised = "none"
        /\ outFile.exists
        /\ Cardinality(DOMAIN outFile.data) = ObfRecordCount
        /\ \A t \in DOMAIN obfFile.data \cap DOMAIN mapFile.mapping :
             /\ mapFile.mapping[t] \in DOMAIN outFile.data
             /\ mapFile.mapping[t] \in DOMAIN jsonInput
             /\ outFile.data[mapFile.mapping[t]] = jsonInput[mapFile.mapping[t]]

\* The mapping file is as the obfuscation run wrote it.
MappingUnchanged == tamper.kind \notin {"rename", "remove"} /\ tamper.sig = "kept"

\* A deobfuscation run of the app line codec has passed its signature check,
\* with the password and app key of the obfuscation run and the mapping
\* file unchanged.
SignatureChecked ==
    /\ variant = "app" /\ pc \in {"deob_loop", "deob_done", "deob_failed"}
    /\ dcreds = ocreds /\ MappingUnchanged

\* C12 (as stated): app line codec; deobfuscation with the same password
\* and app key and the unchanged mapping emits the tamper warning if and
\* only if the content of the obfuscated file differs from what obfuscation
\* wrote; an unmodified file never triggers the warning.
C12_WarningIffContentDiffers ==
    SignatureChecked => (HasMsg("WARNING") <=> obfFile.text # obfuscated_content)

\* C12 for the content as text mode reads it: the warning is emitted if and
\* only if the file, its line ends read as "\n", differs from what
\* obfuscation wrote.  This the code satisfies.
C12_WarningIffReadContentDiffers ==
    SignatureChecked =>
        (HasMsg("WARNING") <=> ReadText(obfFile.text) # obfuscated_content)

\* A deobfuscation run of the app line codec whose recomputed signature
\* differs from the stored one.
SignatureMismatch ==
    /\ variant = "app" /\ pc \in {"deob_loop", "deob_done", "deob_failed"}
    /\ HasStoredSignature(mapFile)
    /\ GenerateFileSignature(ReadText(obfFile.text), key) # mapFile.signature

\* What the record loop of deobfuscate_env_file writes for a document, a
\* mapping and a key, whatever the signature check printed.
RECURSIVE LoopOutput(_, _, _, _, _)
LoopOutput(v, ls, mapping, k, table) ==
    IF ls = <<>> THEN <<>>
    ELSE DeobStep(v, Head(ls), mapping, k, table).written
         \o LoopOutput(v, Tail(ls), mapping, k, table)

\* C13: a signature mismatch is warn-and-continue: the run prints the
\* warning first, does not fail, and when it has ended it has written one
\* line for every record, the very text the record loop writes for the same
\* document, mapping and key when the signature check passes.
C13_MismatchWarnsAndContinues ==
    SignatureMismatch =>
        /\ log # <<>> /\ log[1] = "WARNING"
        /\ pc # "deob_failed" /\ raised = "none"
        /\ outFile.exists
        /\ pc = "deob_done" =>
             /\ Len(OutLines) = Len(Records(obfFile.text))
             /\ outFile.text =
                  LoopOutput(variant, ReadLines(ReadText(obfFile.text)),
                             mapFile.mapping, MasterKey(variant, dcreds, mapFile.salt),
                             cts)

\* A run on a document with a foreign record added has warned and then
\* restored the record obfuscation wrote.
C13_Witness ==
    /\ SignatureMismatch /\ pc = "deob_done" /\ dcreds = ocreds
    /\ tamper.kind = "add" /\ HasMsg("WARNING")
    /\ Len(OutLines) = 2 /\ ~IsDiagnostic(OutLines[1]) /\ IsDiagnostic(OutLines[2])

\* An obfuscation run has ended without an exception and its files are as
\* it wrote them.
ObfuscationDone == pc = "obf_done" /\ tamper = NoTamper

\* The tokens that appear in the obfuscated document on disk.
DocumentTokens ==
    IF variant = "json"
    THEN DOMAIN obfFile.data
    ELSE {RecordName(Records(obfFile.text)[i]) : i \in 1..Len(Records(obfFile.text))}

\* The original key names of the input document.
InputNames ==
    IF variant = "json"
    THEN DOMAIN jsonInput
    ELSE {RecordName(Records(inputText)[i]) : i \in 1..Len(Records(inputText))}

\* C14: after a successful obfuscation run of any codec, also on inputs
\* with repeated key names, the tokens of the obfuscated document are
\* exactly the keys of the mapping written for it, and the mapping sends the
\* token of every input name to that name (and has no other entry).
C14_TokenMappingInvariant ==
    ObfuscationDone =>
        /\ mapFile.exists /\ obfFile.exists
        /\ DocumentTokens = DOMAIN mapFile.mapping
        /\ DOMAIN mapFile.mapping = {ObfuscatedKey(name) : name \in InputNames}
        /\ \A name \in InputNames : mapFile.mapping[ObfuscatedKey(name)] = name

\* A line-codec run on a document that repeats a key name has ended: two
\* record lines, one token, one mapping entry.
C14_Witness ==
    /\ ObfuscationDone /\ variant = "legacy"
    /\ Len(Records(obfFile.text)) = 2
    /\ Cardinality(DocumentTokens) = 1
    /\ DOMAIN mapFile.mapping = {ObfuscatedKey(<<"A">>)}

\* C15 (as stated): obfuscating a JSON object with n distinct keys yields an
\* obfuscated object with n tokens and a mapping artifact that holds the
\* salt, n mapping entries and a signature over the obfuscated document.
C15_JsonArtifactHasSignature ==
    (variant = "json" /\ ObfuscationDone) =>
        /\ Cardinality(DOMAIN obfFile.data) = Cardinality(DOMAIN jsonInput)
        /\ mapFile.exists /\ mapFile.salt = salt /\ salt \in Salts
        /\ Cardinality(DOMAIN mapFile.mapping) = Cardinality(DOMAIN jsonInput)
        /\ mapFile.hasSignature

\* C15 without the signature: n tokens, the salt and n mapping entries.
\* This the code satisfies.
C15_JsonArtifactSaltAndEntries ==
    (variant = "json" /\ ObfuscationDone) =>
        /\ Cardinality(DOMAIN obfFile.data) = Cardinality(DOMAIN jsonInput)
        /\ mapFile.exists /\ mapFile.salt = salt /\ salt \in Salts
        /\ Cardinality(DOMAIN mapFile.mapping) = Cardinality(DOMAIN jsonInput)

\* ------------------------------------------------ the obfuscator service
\* Calls of _EnvObfuscator.obfuscate / deobfuscate on the default instance
\* env_obfuscator: the files the paths name, the arguments, and the value
\* of os.environ[OBFUSCATOR_APP_KEY] (None when unset).
SvcCalls ==
    [op : {"obfuscate", "deobfuscate"},
     inputExists : BOOLEAN, mappingExists : BOOLEAN,
     password : {"", "pw"},
     app_key : {None, Str(""), Str("appkey")},
     envKey : {None, Str(""), Str("envkey")},
     output_file : {None, Str("out.env")}]

\* Exit codes of the script process: 0, 1 (uncaught exception), 2 (argparse).
ExitCodes == {0, 1, 2}

\* effective_app_key: app_key, or os.environ.get(...) when app_key is None.
EffectiveAppKey(c) == IF c.app_key.isNone THEN c.envKey ELSE c.app_key

\* Mutant of Validation: the app key is not checked.
ValidationWithoutAppKey(c) ==
    IF ~c.inputExists THEN "FileNotFoundError"
    ELSE IF c.op = "deobfuscate" /\ ~c.mappingExists THEN "FileNotFoundError"
    ELSE IF c.password = "" THEN "ValueError"
    ELSE "none"

\* The "Validate inputs" part of obfuscate / deobfuscate: the exception it
\* raises, "none" when it passes.
Validation(c) ==
    IF ~c.inputExists THEN "FileNotFoundError"
    ELSE IF c.op = "deobfuscate" /\ ~c.mappingExists THEN "FileNotFoundError"
    ELSE IF c.password = "" THEN "ValueError"
    ELSE IF Falsy(EffectiveAppKey(c)) THEN "ValueError"
    ELSE "none"

\* The command arguments obfuscate / deobfuscate construct.
CommandArgs(c) ==
    (IF c.op = "obfuscate"
     THEN <<"-i", "input", "-p", c.password, "-a", EffectiveAppKey(c).s>>
     ELSE <<"-i", "input", "-m", "mapping", "-p", c.password,
            "-a", EffectiveAppKey(c).s, "-d">>)
    \o (IF Falsy(c.output_file) THEN <<>> ELSE <<"-o", c.output_file.s>>)

SvcInit ==
    /\ CodecIdle /\ KeyIdle /\ PathIdle /\ ApiIdle /\ RunIdle
    /\ scall \in SvcCalls
    /\ spc = "called" /\ sraised = "none"
    /\ runnerArgs = <<>> /\ sresult = NoResult /\ scriptWrote = {}

\* obfuscate / deobfuscate up to `result = self._run_script(args)`: an
\* exception of the validation leaves the call, otherwise the runner is
\* entered with the arguments.
SvcCall ==
    /\ spc = "called"
    /\ IF Validation(scall) # "none"
       THEN /\ sraised' = Validation(scall)
            /\ spc' = "raised"
            /\ UNCHANGED runnerArgs
       ELSE /\ runnerArgs' = Append(runnerArgs, CommandArgs(scall))
            /\ spc' = "running"
            /\ UNCHANGED sraised
    /\ UNCHANGED <<scall, sresult, scriptWrote>>
    /\ UNCHANGED <<codecVars, keyVars, pathVars, apiVars, runVars>>

\* The files a script process that exits with 0 has written.
ScriptOutputs(c) ==
    IF c.op = "obfuscate" THEN {"output", "mapping"} ELSE {"output"}

\* _run_function -> run_obfuscator_env -> rn_pyscrpt: the script runs in a
\* subprocess, execute_command (check=False) returns its CompletedProcess
\* and rn_pyscrpt returns the return code; the service logs completion and
\* returns that value.  A failing script may have written part of its files.
SvcRun ==
    /\ spc = "running"
    /\ \E code \in ExitCodes :
         /\ sresult' = Returned(code)
         /\ IF code = 0
            THEN scriptWrote' = ScriptOutputs(scall)
            ELSE scriptWrote' \in SUBSET ScriptOutputs(scall)
    /\ spc' = "returned"
    /\ UNCHANGED <<scall, sraised, runnerArgs>>
    /\ UNCHANGED <<codecVars, keyVars, pathVars, apiVars, runVars>>

SvcNext == SvcCall \/ SvcRun

SvcSpec == SvcInit /\ [][SvcNext]_vars

\* -------------------------------------------------------- service claims
\* The call has a missing secret: an empty password, or no app key given
\* and none (or an empty one) in the environment variable.
MissingSecret ==
    \/ scall.password = ""
    \/ scall.app_key.isNone /\ Falsy(scall.envKey)

\* C16: a service call with a missing secret raises an error, the script
\* runner is never invoked and no file is written.
C16_MissingSecretFatalBeforeSideEffects ==
    (MissingSecret /\ spc # "called") =>
        /\ spc = "raised"
        /\ sraised \in {"ValueError", "FileNotFoundError"}
        /\ runnerArgs = <<>>
        /\ scriptWrote = {}
        /\ sresult = NoResult

\* A call with a password but no app key anywhere, on existing files, has
\* raised ValueError without entering the runner.
C16_Witness ==
    /\ spc = "raised" /\ sraised = "ValueError"
    /\ scall.inputExists /\ scall.mappingExists
    /\ scall.password = "pw" /\ scall.app_key.isNone /\ scall.envKey.isNone
    /\ runnerArgs = <<>>

\* C17 (as stated): when the script run fails (non-zero exit), obfuscate /
\* deobfuscate raises RuntimeError instead of returning.
C17_ScriptFailureRaises ==
    (spc \in {"returned", "raised"} /\ runnerArgs # <<>>
       /\ sresult.returned /\ sresult.returncode # 0) =>
        /\ spc = "raised"
        /\ sraised = "RuntimeError"

\* ------------------------------------------------------ diagnostics claims
\* Number of per-record failures the run printed.
RECURSIVE FailureCount(_)
FailureCount(msgs) ==
    IF msgs = <<>> THEN 0
    ELSE (IF Head(msgs) \in {"UNKNOWN", "ERROR"} THEN 1 ELSE 0) + FailureCount(Tail(msgs))

\* The diagnostic lines of the output document.
DiagnosticLines == SelectSeq(OutLines, IsDiagnostic)

\* C18 (as stated): app line codec; the per-record failures of a
\* deobfuscation run (unknown token, decryption error) are written inline
\* in the output document and are aggregated in the value the function
\* returns.
C18_DiagnosticsInlineAndReturned ==
    (variant = "app" /\ pc = "deob_done" /\ FailureCount(log) >= 1) =>
        /\ Len(DiagnosticLines) = FailureCount(log)
        /\ retval.returned /\ ~retval.isNone

\* The inline half of C18, which the code satisfies: one diagnostic line in
\* the output per failure.
C18_DiagnosticsInline ==
    (variant = "app" /\ pc = "deob_done") =>
        Len(DiagnosticLines) = FailureCount(log)

\* ------------------------------------------------- default output paths
\* DEFAULT_OUTPUT_EXTENSION with its dot, and the suffix the service adds.
DotObfuscated == <<".", "o", "b", "f", "u", "s", "c", "a", "t", "e", "d">>
DotDeobfuscated == <<".", "d", "e">> \o Tail(DotObfuscated)

StartsWith(s, prefix) ==
    Len(s) >= Len(prefix) /\ SubSeq(s, 1, Len(prefix)) = prefix

\* str.endswith
EndsWith(s, suffix) ==
    Len(s) >= Len(suffix) /\ SubSeq(s, Len(s) - Len(suffix) + 1, Len(s)) = suffix

\* s.replace(old, new) for a non-empty old: every occurrence, left to right.
RECURSIVE Replace(_, _, _)
Replace(s, old, new) ==
    IF s = <<>> THEN <<>>
    ELSE IF StartsWith(s, old)
         THEN new \o Replace(SubSeq(s, Len(old) + 1, Len(s)), old, new)
         ELSE <<Head(s)>> \o Replace(Tail(s), old, new)

\* Position of the last occurrence of character c in s, 0 when there is none.
LastIndex(s, c) ==
    IF \E i \in 1..Len(s) : s[i] = c
    THEN CHOOSE i \in 1..Len(s) : s[i] = c /\ \A j \in (i + 1)..Len(s) : s[j] # c
    ELSE 0

\* pathlib: Path.name, the text after the last '/'.
PathName(path) == SubSeq(path, LastIndex(path, "/") + 1, Len(path))

\* pathlib: Path.stem, the name without its last suffix; a dot that starts
\* or ends the name begins no suffix.
PathStem(path) ==
    LET name == PathName(path)
        i == LastIndex(name, ".")
    IN  IF 1 < i /\ i < Len(name) THEN SubSeq(name, 1, i - 1) ELSE name

\* pathlib: Path.with_name(name), the parent part kept.
WithName(path, name) == SubSeq(path, 1, LastIndex(path, "/")) \o name

\* _EnvObfuscator.get_default_output_path(input_path, is_deobfuscation)
GetDefaultOutputPath(input_path, is_deobfuscation) ==
    IF is_deobfuscation
    THEN IF EndsWith(PathName(input_path), DotObfuscated)
         THEN WithName(input_path, PathStem(input_path))
         ELSE WithName(input_path, PathName(input_path) \o DotDeobfuscated)
    ELSE WithName(input_path, PathName(input_path) \o DotObfuscated)

\* The output_file main() of obfuscator_env.py uses when -o is not given.
ScriptDefaultOutput(input, decrypt) ==
    IF decrypt
    THEN Replace(input, DotObfuscated, <<>>)
    ELSE input \o DotObfuscated

\* Pieces of input paths: a name, a dot file, the extension, another
\* suffix, a directory.
PathPieces ==
    { <<"a">>, <<".", "e", "n", "v">>, DotObfuscated, <<".", "b", "a", "k">>,
      <<"d", "/">> }

\* Paths of files: they do not end with '/', and pathlib leaves them as
\* they are written (no "//", no "." component, no trailing '/').
InputPaths ==
    {Concat(ps) : ps \in {q \in UNION {[1..n -> PathPieces] : n \in 1..MaxPathPieces} :
                             q[Len(q)] # <<"d", "/">>}}

PathInit ==
    /\ CodecIdle /\ KeyIdle /\ SvcIdle /\ ApiIdle /\ RunIdle
    /\ pargs \in [input_path : InputPaths, is_deobfuscation : BOOLEAN]
    /\ pout = NoPaths

\* Both default paths are computed for the arguments.
PathCompute ==
    /\ ~pout.computed /\ pargs # NoPathArgs
    /\ pout' = [computed |-> TRUE,
                service |-> GetDefaultOutputPath(pargs.input_path, pargs.is_deobfuscation),
                script |-> ScriptDefaultOutput(pargs.input_path, pargs.is_deobfuscation)]
    /\ UNCHANGED <<pargs, codecVars, keyVars, svcVars, apiVars, runVars>>

PathNext == PathCompute

PathSpec == PathInit /\ [][PathNext]_vars

\* C20 (as stated): for every input path, get_default_output_path returns
\* the output path the script uses without -o, for obfuscation and for
\* deobfuscation.
C20_DefaultOutputPathsAgree ==
    pout.computed => pout.service = pout.script

\* C20 for obfuscation alone, which the code satisfies.
C20_DefaultOutputPathsAgreeObfuscation ==
    (pout.computed /\ ~pargs.is_deobfuscation) => pout.service = pout.script

\* C20 for deobfuscation of a path that ends with ".obfuscated" and holds
\* it nowhere else, and whose name has something before it: this the code
\* satisfies too.
C20_DefaultOutputPathsAgreeSuffixOnly ==
    (pout.computed /\ pargs.is_deobfuscation
       /\ EndsWith(pargs.input_path, DotObfuscated)
       /\ PathName(pargs.input_path) # DotObfuscated
       /\ Replace(pargs.input_path, DotObfuscated, <<>>) \o DotObfuscated = pargs.input_path)
        => pout.service = pout.script

\* ------------------------------------------------------- record split claims
\* A deobfuscation run of the app line codec has ended on the files as
\* obfuscation wrote them, with the password and app key of obfuscation.
CleanAppRoundTrip ==
    variant = "app" /\ pc = "deob_done" /\ tamper = NoTamper /\ dcreds = ocreds

\* Record i of the input was encrypted whole: ciphertext i decrypts to
\* everything after the first '=' of the line.
EncryptedWhole(i) ==
    /\ i <= Len(cts)
    /\ cts[i].pt = RecordValue(Records(inputText)[i])

\* C21 (as stated): a record line is split at its first '=' only; the value,
\* everything after it, is encrypted whole and restored whole by
\* deobfuscation, also when it contains '=' characters.
C21_SplitAtFirstEqRestoredWhole ==
    CleanAppRoundTrip =>
        /\ Len(OutLines) = Len(Records(inputText))
        /\ \A i \in 1..Len(Records(inputText)) :
             /\ EncryptedWhole(i)
             /\ HasEq(RecordValue(Records(inputText)[i]))
                  => OutLines[i] = RestoredLine(Records(inputText)[i])

\* C21 for the records with a non-empty name, which the code satisfies.
C21_SplitAtFirstEqNamedRecords ==
    CleanAppRoundTrip =>
        /\ Len(OutLines) = Len(Records(inputText))
        /\ \A i \in 1..Len(Records(inputText)) :
             /\ EncryptedWhole(i)
             /\ (HasEq(RecordValue(Records(inputText)[i]))
                   /\ RecordName(Records(inputText)[i]) # <<>>)
                  => OutLines[i] = RestoredLine(Records(inputText)[i])

\* --------------------------------------------------- the REST endpoints
\* Requests to POST /api/env/obfuscate/{file_id} and /api/env/deobfuscate.
\* "f1" and "m1" are uploaded files, "nofile" is an id of no upload.
ObfuscateRequests ==
    [op : {"obfuscate"}, file_id : {"f1", "nofile"}, mapping_file_id : {"m1"},
     password : {"", "pw"}, output_filename : {None, Str("out.env")}]

DeobfuscateRequests ==
    [op : {"deobfuscate"}, file_id : {"f1", "nofile"}, mapping_file_id : {"m1", "nofile"},
     password : {"", "pw"}, output_filename : {None, Str("out.env")}]

ApiInit ==
    /\ CodecIdle /\ KeyIdle /\ SvcIdle /\ PathIdle /\ RunIdle
    /\ temp_files = {"f1", "m1"}
    /\ task_results = EmptyDict
    /\ atasks = <<>>
    /\ aresp = NoResponse
    /\ aenv \in {None, Str("envkey")}

\* The endpoint's response with the task id, and an HTTPException.
Pending(endpoint, task_id) ==
    [endpoint |-> endpoint, code |-> 200, task_id |-> task_id,
     status |-> "pending", detail |-> ""]

HttpError(endpoint, detail) ==
    [endpoint |-> endpoint, code |-> 404, task_id |-> 0, status |-> "", detail |-> detail]

\* obfuscate_env_file endpoint: 404 for an unknown file id; otherwise a new
\* task id, _run_task added to the background tasks, and the "pending"
\* response.  Nothing is stored in task_results.
ApiObfuscate ==
    /\ Len(atasks) < MaxTasks
    /\ \E request \in ObfuscateRequests :
         IF request.file_id \notin temp_files
         THEN /\ aresp' = HttpError("obfuscate", "File not found")
              /\ UNCHANGED atasks
         ELSE /\ atasks' = Append(atasks, [request |-> request, state |-> "added",
                                           ranScript |-> FALSE])
              /\ aresp' = Pending("obfuscate", Len(atasks) + 1)
    /\ UNCHANGED <<temp_files, task_results, aenv>>
    /\ UNCHANGED <<codecVars, keyVars, svcVars, pathVars, runVars>>

\* deobfuscate_env_file endpoint, likewise, with its two file ids.
ApiDeobfuscate ==
    /\ Len(atasks) < MaxTasks
    /\ \E request \in DeobfuscateRequests :
         IF request.file_id \notin temp_files
         THEN /\ aresp' = HttpError("deobfuscate", "Obfuscated file not found")
              /\ UNCHANGED atasks
         ELSE IF request.mapping_file_id \notin temp_files
         THEN /\ aresp' = HttpError("deobfuscate", "Mapping file not found")
              /\ UNCHANGED atasks
         ELSE /\ atasks' = Append(atasks, [request |-> request, state |-> "added",
                                           ranScript |-> FALSE])
              /\ aresp' = Pending("deobfuscate", Len(atasks) + 1)
    /\ UNCHANGED <<temp_files, task_results, aenv>>
    /\ UNCHANGED <<codecVars, keyVars, svcVars, pathVars, runVars>>

\* output_path of _run_task: os.path.join(tempfile.gettempdir(), name) when
\* request.output_filename is truthy, else None.
TaskOutputPath(request) ==
    IF Falsy(request.output_filename) THEN None
    ELSE Str("/tmp/" \o request.output_filename.s)

\* The service call _run_task makes.  The arguments are positional:
\* obfuscate(input_path, request.password, output_path) and
\* deobfuscate(input_path, mapping_path, request.password, output_path), so
\* output_path arrives as the parameter app_key and output_file stays None.
TaskServiceCall(request, env) ==
    [op |-> request.op, inputExists |-> TRUE, mappingExists |-> TRUE,
     password |-> request.password, app_key |-> TaskOutputPath(request),
     envKey |-> env, output_file |-> None]

\* What the try block of _run_task ends with.  The service raises in its
\* validation, or it runs the script and returns the return code, an int;
\* `await` of an int raises TypeError.  No path reaches the assignment of a
\* "completed" record.
TryBlock(request, env) ==
    LET c == TaskServiceCall(request, env)
    IN  IF Validation(c) # "none"
        THEN [exception |-> Validation(c), ranScript |-> FALSE]
        ELSE [exception |-> "TypeError", ranScript |-> TRUE]

\* task_results[task_id] = {"status": "failed", "error": str(e)}
Failed(e) == [status |-> "failed", hasResult |-> FALSE, error |-> e]

\* The background task _run_task of task t, from start to end (it has no
\* point of suspension).  In the except clause logger.error is called on
\* the name `logger` imported from the fastapi package: bound to the module
\* fastapi.logger it raises AttributeError and the task ends there; bound to
\* a Logger it returns and the "failed" record is stored.
RunTask ==
    \E t \in 1..Len(atasks) :
        /\ atasks[t].state = "added"
        /\ LET r == TryBlock(atasks[t].request, aenv)
           IN  \E loggerErrorRaises \in BOOLEAN :
                 /\ atasks' = [atasks EXCEPT ![t].state = "ran",
                                             ![t].ranScript = r.ranScript]
                 /\ task_results' =
                      IF loggerErrorRaises THEN task_results
                      ELSE DictPut(task_results, t, Failed(r.exception))
        /\ UNCHANGED <<temp_files, aresp, aenv>>
        /\ UNCHANGED <<codecVars, keyVars, svcVars, pathVars, runVars>>

\* get_task_status(task_id) for a task id an endpoint has returned.
GetTaskStatus ==
    /\ \E task_id \in 1..Len(atasks) :
         aresp' =
           IF task_id \notin DOMAIN task_results
           THEN HttpError("get_task_status", "Task not found")
           ELSE [endpoint |-> "get_task_status", code |-> 200, task_id |-> task_id,
                 status |-> task_results[task_id].status, detail |-> ""]
    /\ UNCHANGED <<temp_files, task_results, atasks, aenv>>
    /\ UNCHANGED <<codecVars, keyVars, svcVars, pathVars, runVars>>

ApiNext == ApiObfuscate \/ ApiDeobfuscate \/ RunTask \/ GetTaskStatus

ApiSpec == ApiInit /\ [][ApiNext]_vars

\* ------------------------------------------------------------ REST claims
\* C22 (as stated): from the moment an endpoint has returned a task id, a
\* get_task_status request for it finds the task, with status pending,
\* completed or failed, and never answers "Task not found".
C22_TaskStatusAlwaysRetrievable ==
    aresp.endpoint = "get_task_status" =>
        /\ aresp.code = 200
        /\ aresp.status \in {"pending", "completed", "failed"}

\* What the code keeps instead: task_results holds a record only for a task
\* whose background task has run; nothing is stored when the endpoint
\* returns.
C22_RecordOnlyAfterTaskRan ==
    \A t \in DOMAIN task_results : t \in 1..Len(atasks) /\ atasks[t].state = "ran"

\* C28 (as stated): once the background task of a task id has run,
\* task_results holds that id with status "completed" and a result, or
\* "failed" and an error message.
C28_TaskReachesFinalRecord ==
    \A t \in 1..Len(atasks) :
        atasks[t].state = "ran" =>
            /\ t \in DOMAIN task_results
            /\ \/ task_results[t].status = "completed" /\ task_results[t].hasResult
               \/ task_results[t].status = "failed" /\ task_results[t].error # ""

\* A document in which every line is a newline-terminated record with a
\* non-empty name and no leading or trailing whitespace.
WellFormedLine(line) ==
    /\ HasEq(line)
    /\ line[Len(line)] = NL
    /\ Strip(line) = SubSeq(line, 1, Len(line) - 1)
    /\ RecordName(line) # <<>>

WellFormedDocument(text) ==
    \A i \in 1..Len(ReadLines(text)) : WellFormedLine(ReadLines(text)[i])

\* C23: app line codec; a well-formed document that is obfuscated and then
\* deobfuscated with the same password and app key comes back exactly, line
\* for line, also when it repeats a key name or has '=' in a value.
C23_RestrictedRoundTrip ==
    (CleanAppRoundTrip /\ WellFormedDocument(inputText)) =>
        /\ outFile.text = inputText
        /\ raised = "none" /\ log = <<>>

\* A document that repeats the name A, once with '=' in the value, has come
\* back exactly.
C23_Witness ==
    /\ CleanAppRoundTrip
    /\ inputText = <<"A", "=", "1", NL, "A", "=", "1", "=", "2", NL>>
    /\ WellFormedDocument(inputText)
    /\ outFile.text = inputText

\* C24 (as stated): app line codec; a record is written as '# UNKNOWN KEY'
\* only if its token is absent from the mapping, so every record that
\* obfuscation produced, whatever its name (the empty name included), is
\* looked up and decrypted.
C24_UnknownOnlyIfAbsent ==
    (variant = "app" /\ pc = "deob_done") =>
        LET recs == Records(obfFile.text)
        IN  /\ Len(OutLines) = Len(recs)
            /\ \A i \in 1..Len(recs) :
                 OutLines[i][1] = "# UNKNOWN KEY: "
                    => RecordName(recs[i]) \notin DOMAIN mapFile.mapping

\* C24 for mapping entries with a non-empty name, which the code satisfies.
C24_UnknownOnlyIfAbsentOrEmptyName ==
    (variant = "app" /\ pc = "deob_done") =>
        LET recs == Records(obfFile.text)
        IN  /\ Len(OutLines) = Len(recs)
            /\ \A i \in 1..Len(recs) :
                 OutLines[i][1] = "# UNKNOWN KEY: "
                    => \/ RecordName(recs[i]) \notin DOMAIN mapFile.mapping
                       \/ mapFile.mapping[RecordName(recs[i])] = <<>>

\* ----------------------------------------------------- output path claims
\* The mapping file obfuscation writes next to the document `path`.
DefaultMappingPath(path) ==
    path \o <<".", "m", "a", "p", "p", "i", "n", "g", ".", "j", "s", "o", "n">>

\* C25 (as stated): with -d and no -o, the output path the CLI writes is
\* different from the obfuscated input path and from the mapping path, for
\* every input file name.
C25_DefaultOutputNeverInput ==
    (pout.computed /\ pargs.is_deobfuscation) =>
        /\ pout.script # pargs.input_path
        /\ pout.script # DefaultMappingPath(pargs.input_path)

\* C25 for input paths that contain ".obfuscated", which the code satisfies,
\* and the mapping half for every path.
C25_DefaultOutputNeverInputWhenExtended ==
    (pout.computed /\ pargs.is_deobfuscation) =>
        /\ (\E i \in 1..Len(pargs.input_path) :
               StartsWith(SubSeq(pargs.input_path, i, Len(pargs.input_path)), DotObfuscated))
              => pout.script # pargs.input_path
        /\ pout.script # DefaultMappingPath(pargs.input_path)

\* ------------------------------------------------- missing signature claims
\* C26: app line codec; when the mapping file has no "signature" field, or
\* an empty one, deobfuscation prints no tamper warning whatever the
\* obfuscated file holds and whatever the key, and goes on to the records:
\* when it has ended it has written what the record loop writes, one line
\* per record.
C26_NoStoredSignatureNoWarning ==
    (variant = "app" /\ pc \in {"deob_loop", "deob_done", "deob_failed"}
       /\ ~HasStoredSignature(mapFile)) =>
        /\ ~HasMsg("WARNING")
        /\ pc # "deob_failed" /\ raised = "none" /\ outFile.exists
        /\ pc = "deob_done" =>
             /\ Len(OutLines) = Len(Records(obfFile.text))
             /\ outFile.text =
                  LoopOutput(variant, ReadLines(ReadText(obfFile.text)),
                             mapFile.mapping, MasterKey(variant, dcreds, mapFile.salt),
                             cts)

\* A run on a mapping whose signature was removed and a document with a
\* foreign record added has ended without a warning, the record of
\* obfuscation decrypted.
C26_Witness ==
    /\ variant = "app" /\ pc = "deob_done" /\ dcreds = ocreds
    /\ tamper.sig = "removed" /\ tamper.kind = "add"
    /\ ~HasStoredSignature(mapFile)
    /\ ~HasMsg("WARNING")
    /\ Len(OutLines) = 2 /\ ~IsDiagnostic(OutLines[1]) /\ IsDiagnostic(OutLines[2])

\* A run on a mapping whose signature was set to "".
C26_WitnessEmptied ==
    /\ variant = "app" /\ pc = "deob_done" /\ tamper.sig = "emptied"
    /\ tamper.kind = "cut" /\ log = <<>>

\* ----------------------------------------------------- the script runner
\* The service's call of the obfuscator script, character by character:
\* obfuscate builds the argument list, run_obfuscator_env wraps it with the
\* script path, rn_pyscrpt formats the list into "python [...]", clean_command
\* evaluates it back and joins it with spaces, and execute_command hands the
\* line to /bin/sh -c.
MaxArgLen == 2

\* Characters of the secrets: a letter, a space, and the shell's command
\* separator and quote.
ArgChars == {"a", " ", ";", "'"}

ArgStrings == UNION {[1..n -> ArgChars] : n \in 0..MaxArgLen}

\* Calls that pass the validation of obfuscate: the input file exists, the
\* password and the effective app key are not empty; output_file is <<>>
\* when not given.
RunCalls ==
    [password : ArgStrings \ {<<>>},
     app_key : ArgStrings \ {<<>>},
     output_file : {<<>>, <<"o">>}]

InputPath == <<"i", "n">>
Flag(c) == <<"-", c>>

\* args = ["-i", str(input_path), "-p", password, "-a", effective_app_key],
\* extended by ["-o", str(output_path)] when output_file is truthy.
ServiceArgs(c) ==
    <<Flag("i"), InputPath, Flag("p"), c.password, Flag("a"), c.app_key>>
    \o (IF c.output_file = <<>> THEN <<>> ELSE <<Flag("o"), c.output_file>>)

\* Python values: a str or a list.
PyStr(s) == [isList |-> FALSE, s |-> s, items |-> <<>>]
PyList(items) == [isList |-> TRUE, s |-> <<>>, items |-> items]

\* 'scripts/obfuscator_env.py ' (with its trailing space).
ScriptPath ==
    <<"s", "c", "r", "i", "p", "t", "s", "/", "o", "b", "f", "u", "s", "c",
      "a", "t", "o", "r", "_", "e", "n", "v", ".", "p", "y", " ">>

\* The list run_obfuscator_env hands to rn_pyscrpt.
RunnerInput(args) ==
    PyList(<<PyStr(ScriptPath), PyList([i \in 1..Len(args) |-> PyStr(args[i])])>>)

\* repr() of a str without backslashes or control characters: in single
\* quotes, in double quotes when it holds a single quote (and no double one).
ReprStr(s) ==
    LET q == IF \E i \in 1..Len(s) : s[i] = "'" THEN "\"" ELSE "'"
    IN  <<q>> \o s \o <<q>>

RECURSIVE Repr(_)
RECURSIVE ReprItems(_)
\* repr() of a value: a list is its items' repr joined by ", " in brackets.
Repr(v) == IF v.isList THEN <<"[">> \o ReprItems(v.items) \o <<"]">> ELSE ReprStr(v.s)
ReprItems(items) ==
    IF items = <<>> THEN <<>>
    ELSE Repr(Head(items))
         \o (IF Len(items) = 1 THEN <<>> ELSE <<",", " ">> \o ReprItems(Tail(items)))

\* f"python {args}"
CommandString(v) == <<"p", "y", "t", "h", "o", "n", " ">> \o Repr(v)

\* \w of the regular expression, for the characters of the model.
WordChars ==
    {"a", "b", "c", "d", "e", "f", "g", "h", "i", "j", "k", "l", "m", "n", "o",
     "p", "q", "r", "s", "t", "u", "v", "w", "x", "y", "z", "_"}

\* Length of the longest prefix of t, from position i on, made of cs.
Span(t, i, cs) ==
    CHOOSE n \in 0..(Len(t) + 1 - i) :
        /\ \A j \in i..(i + n - 1) : t[j] \in cs
        /\ (i + n > Len(t) \/ t[i + n] \notin cs)

\* re.match(r"(\w+)\s*(.*)", t): the groups, "." matching all but "\n".
RegexMatch(t) ==
    LET w == Span(t, 1, WordChars)
        sp == Span(t, w + 1, Whitespace)
        rest == SubSeq(t, w + sp + 1, Len(t))
        dot == Span(rest, 1, {rest[j] : j \in 1..Len(rest)} \ {"\n"})
    IN  [matched |-> w > 0, command |-> SubSeq(t, 1, w), args_str |-> SubSeq(rest, 1, dot)]

ParseFailed == [ok |-> FALSE, v |-> PyList(<<>>), next |-> 1]
Parsed(v, n) == [ok |-> TRUE, v |-> v, next |-> n]

\* The first position from i on that holds no blank.
SkipBlanks(t, i) == i + Span(t, i, {" ", "\t"})

\* A string literal opening at t[i]: up to the next quote of its kind.
ParseString(t, i) ==
    IF \E j \in (i + 1)..Len(t) : t[j] = t[i]
    THEN LET j == CHOOSE j \in (i + 1)..Len(t) :
                      t[j] = t[i] /\ \A k \in (i + 1)..(j - 1) : t[k] # t[i]
         IN  Parsed(PyStr(SubSeq(t, i + 1, j - 1)), j + 1)
    ELSE ParseFailed

RECURSIVE ParseValue(_, _)
RECURSIVE ParseItems(_, _, _)
\* A literal at t[i..]: a string or a list display.
ParseValue(t, i) ==
    LET j == SkipBlanks(t, i)
    IN  IF j > Len(t) THEN ParseFailed
        ELSE IF t[j] = "[" THEN ParseItems(t, j + 1, <<>>)
        ELSE IF t[j] \in {"'", "\""} THEN ParseString(t, j)
        ELSE ParseFailed
\* The items of a list display after its "[" (a trailing comma is allowed).
ParseItems(t, i, acc) ==
    LET j == SkipBlanks(t, i)
    IN  IF j > Len(t) THEN ParseFailed
        ELSE IF t[j] = "]" THEN Parsed(PyList(acc), j + 1)
        ELSE LET r == ParseValue(t, j)
                 k == SkipBlanks(t, r.next)
             IN  IF ~r.ok \/ k > Len(t) THEN ParseFailed
                 ELSE IF t[k] = "," THEN ParseItems(t, k + 1, Append(acc, r.v))
                 ELSE IF t[k] = "]" THEN Parsed(PyList(Append(acc, r.v)), k + 1)
                 ELSE ParseFailed

\* ast.literal_eval(t): the value, or ok = FALSE for SyntaxError / ValueError.
LiteralEval(t) ==
    LET r == ParseValue(t, 1)
    IN  IF r.ok /\ SkipBlanks(t, r.next) > Len(t) THEN r ELSE ParseFailed

RECURSIVE flatten_list(_)
flatten_list(nested_list) ==
    IF nested_list = <<>> THEN <<>>
    ELSE (IF Head(nested_list).isList
          THEN flatten_list(Head(nested_list).items)
          ELSE <<Head(nested_list)>>)
         \o flatten_list(Tail(nested_list))

RECURSIVE JoinSpace(_)
\* ' '.join(map(str, args_list)) of a flat list of str.
JoinSpace(args_list) ==
    IF args_list = <<>> THEN <<>>
    ELSE Head(args_list).s
         \o (IF Len(args_list) = 1 THEN <<>> ELSE <<" ">> \o JoinSpace(Tail(args_list)))

\* args_list of clean_command: the evaluated and flattened list, [] when the
\* text does not evaluate.
ArgsList(args_str) ==
    LET e == LiteralEval(<<"[">> \o Strip(args_str) \o <<"]">>)
    IN  IF e.ok THEN flatten_list(e.v.items) ELSE <<>>

clean_command(command_str) ==
    LET m == RegexMatch(command_str)
    IN  IF m.matched
        THEN Strip(m.command \o <<" ">> \o JoinSpace(ArgsList(m.args_str)))
        ELSE Strip(command_str)

\* sh reading the command line t.  A "'" opens or closes a quotation, and
\* t[i] is quoted when an odd number of them precedes it.
Quoted(t, i) == t[i] # "'" /\ Cardinality({j \in 1..i : t[j] = "'"}) % 2 = 1

\* An unquoted blank ends a word, an unquoted ";" ends a command.
IsBlank(t, i) == t[i] \in {" ", "\t"} /\ ~Quoted(t, i)
IsSeparator(t, i) == t[i] = ";" /\ ~Quoted(t, i)
InWord(t, i) == ~IsBlank(t, i) /\ ~IsSeparator(t, i)

\* The k-th smallest element of a set of positions.
Nth(S, k) == CHOOSE p \in S : Cardinality({q \in S : q < p}) = k - 1

\* The positions between lo and hi where a word begins.
WordStarts(t, lo, hi) ==
    {i \in (lo + 1)..(hi - 1) : InWord(t, i) /\ (i = lo + 1 \/ ~InWord(t, i - 1))}

\* The word beginning at t[i], its quotes removed.
WordAt(t, i) ==
    LET n == CHOOSE n \in 1..(Len(t) + 1 - i) :
                 /\ \A j \in i..(i + n - 1) : InWord(t, j)
                 /\ (i + n > Len(t) \/ ~InWord(t, i + n))
    IN  SelectSeq(SubSeq(t, i, i + n - 1), LAMBDA c : c # "'")

\* The words of the command between positions lo and hi.
WordsBetween(t, lo, hi) ==
    LET S == WordStarts(t, lo, hi)
    IN  [k \in 1..Cardinality(S) |-> WordAt(t, Nth(S, k))]

\* subprocess.run(cmd, shell=True): /bin/sh -c cmd.  The line is parsed
\* whole; an unclosed quotation or a ";" that ends no command is a syntax
\* error and runs nothing, otherwise the commands run in turn, each with
\* its words as argument vector.
Shell(cmd) ==
    LET seps == {i \in 1..Len(cmd) : IsSeparator(cmd, i)}
        m == Cardinality(seps)
        bound(k) == IF k = 0 THEN 0 ELSE IF k > m THEN Len(cmd) + 1 ELSE Nth(seps, k)
        segment(k) == WordsBetween(cmd, bound(k - 1), bound(k))
        unclosed == Cardinality({j \in 1..Len(cmd) : cmd[j] = "'"}) % 2 = 1
    IN  IF unclosed \/ \E k \in 1..m : segment(k) = <<>>
        THEN [status |-> "syntax error", commands |-> <<>>]
        ELSE [status |-> "run",
              commands |-> [k \in 1..(IF segment(m + 1) = <<>> THEN m ELSE m + 1)
                              |-> segment(k)]]

RunInit ==
    /\ CodecIdle /\ KeyIdle /\ SvcIdle /\ PathIdle /\ ApiIdle
    /\ rcall \in RunCalls
    /\ rpc = "called"
    /\ rargs = <<>> /\ rcommand = <<>> /\ rshell = NoShell

\* obfuscate from "Construct command arguments" to self._run_script(args).
RunScript ==
    /\ rpc = "called"
    /\ rargs' = ServiceArgs(rcall)
    /\ rpc' = "runner"
    /\ UNCHANGED <<rcall, rcommand, rshell>>
    /\ UNCHANGED <<codecVars, keyVars, svcVars, pathVars, apiVars>>

\* run_obfuscator_env(args) -> rn_pyscrpt: the command line is cleaned and
\* executed through the shell.
rn_pyscrpt ==
    /\ rpc = "runner"
    /\ rcommand' = clean_command(CommandString(RunnerInput(rargs)))
    /\ rshell' = Shell(rcommand')
    /\ rpc' = "executed"
    /\ UNCHANGED <<rcall, rargs>>
    /\ UNCHANGED <<codecVars, keyVars, svcVars, pathVars, apiVars>>

RunNext == RunScript \/ rn_pyscrpt

RunSpec == RunInit /\ [][RunNext]_vars

\* --------------------------------------------------- script runner claims
\* The script has been started: the first command of the line is python
\* with the script path.
ScriptStarted ==
    /\ rshell.status = "run" /\ rshell.commands # <<>>
    /\ Len(rshell.commands[1]) >= 2
    /\ rshell.commands[1][1] = <<"p", "y", "t", "h", "o", "n">>
    /\ rshell.commands[1][2] = RStrip(ScriptPath)

\* sys.argv[1:] of the script.
ScriptArgv == SubSeq(rshell.commands[1], 3, Len(rshell.commands[1]))

\* C27: every argument the service hands to the script runner arrives in
\* the script's argument list as exactly one argument with the same
\* characters, whatever characters it holds: the line runs the script and
\* nothing else, and the script's arguments are the service's.
C27_ArgumentsReachScriptUnchanged ==
    rpc = "executed" =>
        /\ ScriptStarted
        /\ Len(rshell.commands) = 1
        /\ ScriptArgv = rargs

\* The password and the app key hold no blank, ";" or "'".
PlainSecrets ==
    /\ \A i \in 1..Len(rcall.password) : rcall.password[i] \notin {" ", ";", "'"}
    /\ \A i \in 1..Len(rcall.app_key) : rcall.app_key[i] \notin {" ", ";", "'"}

\* What does hold: arguments without blanks and shell metacharacters
\* arrive unchanged.
C27_PlainArgumentsReachScriptUnchanged ==
    (rpc = "executed" /\ PlainSecrets) =>
        /\ ScriptStarted
        /\ Len(rshell.commands) = 1
        /\ ScriptArgv = rargs

\* What does hold: the list evaluated back from the formatted command is
\* the script path followed by the service's arguments, and the command
\* line is their join with single spaces, stripped.
C27_CommandLineIsJoinedArguments ==
    rpc = "executed" =>
        LET l == ArgsList(Repr(RunnerInput(rargs)))
        IN  /\ l = <<PyStr(ScriptPath)>> \o [i \in 1..Len(rargs) |-> PyStr(rargs[i])]
            /\ rcommand = Strip(<<"p", "y", "t", "h", "o", "n", " ">> \o JoinSpace(l))

=============================================================================
